---- MODULE Spec2Model ----
(***************************************************************************)
(* The wire schema of src/types.rs: the call context (Params), the         *)
(* outgoing-message union (Msg / CosmosMsg) and the result union           *)
(* (ContractResult / Result), together with the protobuf codec that        *)
(* #[derive(Message)] and #[derive(prost::Oneof)] generate from the field  *)
(* attributes (tag, required, optional, repeated, oneof).                  *)
(*                                                                         *)
(* Representation.  A String or a byte buffer is a sequence of bytes       *)
(* (0..255).  Option<T> is a sequence of length 0 (None) or 1 (Some).      *)
(* A struct is a record with the source's field names.  An enum value is   *)
(* a record with the single field named after its variant.                 *)
(* core::result::Result<T, DecodeError> is [ok |-> v] or [err |-> text].   *)
(* A panic is the record [panic |-> text].                                 *)
(***************************************************************************)
EXTENDS Integers, Sequences, FiniteSets, TLC

None == << >>
Some(x) == << x >>

\* ------------------------------------------------------------------------
\* Bounds of the model
\* ------------------------------------------------------------------------
MaxStrLen == 2
MaxCoins == 2
MaxMsgs == 2

\* ------------------------------------------------------------------------
\* Wire primitives (prost::encoding, as used by the derived impls)
\* ------------------------------------------------------------------------
WireType == [Varint |-> 0, SixtyFourBit |-> 1, LengthDelimited |-> 2, ThirtyTwoBit |-> 5]
Varint == WireType.Varint
SixtyFourBit == WireType.SixtyFourBit
LengthDelimited == WireType.LengthDelimited
ThirtyTwoBit == WireType.ThirtyTwoBit

WireTypes == {Varint, SixtyFourBit, LengthDelimited, ThirtyTwoBit}

Failed(r) == "err" \in DOMAIN r
DecodeError(d) == [err |-> d]

\* encode_varint of a value given as i64 (cast to u64, two's complement):
\* seven bits per byte, least significant group first, at most ten bytes.
RECURSIVE encode_varint_from(_, _)
encode_varint_from(v, i) ==
    IF i = 10 THEN << v % 2 >>
    ELSE IF v >= 0 /\ v < 128 THEN << v >>
    ELSE << (v % 128) + 128 >> \o encode_varint_from(v \div 128, i + 1)

encode_varint(v) == encode_varint_from(v, 1)

\* Number of bytes decode_varint consumes: up to and including the first
\* byte below 0x80 among the first ten, 0 when there is none.
RECURSIVE varint_len(_, _)
varint_len(buf, i) ==
    IF i > Len(buf) \/ i > 10 THEN 0
    ELSE IF buf[i] < 128 THEN i
    ELSE varint_len(buf, i + 1)

\* The value of the first n bytes (seven bits each, least significant group
\* first, bit 63 from the tenth byte), read as i64.
RECURSIVE varint_value(_, _, _)
varint_value(buf, i, n) ==
    IF i > n THEN 0
    ELSE IF i = 10 THEN 0 - (buf[10] % 2)
    ELSE (buf[i] % 128) + 128 * varint_value(buf, i + 1, n)

\* Mutation: the empty buffer is read as the varint 0.
decode_varint_unchecked(buf) ==
    LET n == varint_len(buf, 1)
    IN IF buf = << >> THEN [val |-> 0, buf |-> << >>]
       ELSE IF n = 0 THEN DecodeError("invalid varint")
       ELSE [val |-> varint_value(buf, 1, n), buf |-> SubSeq(buf, n + 1, Len(buf))]

decode_varint(buf) ==
    LET n == varint_len(buf, 1)
    IN IF n = 0 THEN DecodeError("invalid varint")
       ELSE [val |-> varint_value(buf, 1, n), buf |-> SubSeq(buf, n + 1, Len(buf))]

encode_key(tag, wire_type) == encode_varint(tag * 8 + wire_type)

decode_key(buf) ==
    LET k == decode_varint(buf)
    IN IF Failed(k) THEN k
       ELSE IF k.val < 0 THEN DecodeError("invalid key value")
       ELSE IF (k.val % 8) \notin WireTypes THEN DecodeError("invalid wire type value")
       ELSE IF k.val \div 8 < 1 THEN DecodeError("invalid tag value: 0")
       ELSE [tag |-> k.val \div 8, wire_type |-> k.val % 8, buf |-> k.buf]

\* A length read as u64 exceeds the remaining bytes (a negative i64 is a
\* u64 of at least 2^63).
Underflow(len, buf) == len < 0 \/ len > Len(buf)

Advance(buf, n) == SubSeq(buf, n + 1, Len(buf))

\* Mutation: a 64-bit field is skipped as if it were four bytes long.
skip_field_fixed32(wire_type, buf) ==
    IF wire_type = Varint THEN
        LET v == decode_varint(buf)
        IN IF Failed(v) THEN v ELSE [buf |-> v.buf]
    ELSE IF wire_type \in {SixtyFourBit, ThirtyTwoBit} THEN
        IF Underflow(4, buf) THEN DecodeError("buffer underflow")
        ELSE [buf |-> Advance(buf, 4)]
    ELSE
        LET l == decode_varint(buf)
        IN IF Failed(l) THEN l
           ELSE IF Underflow(l.val, l.buf) THEN DecodeError("buffer underflow")
           ELSE [buf |-> Advance(l.buf, l.val)]

skip_field(wire_type, buf) ==
    IF wire_type = Varint THEN
        LET v == decode_varint(buf)
        IN IF Failed(v) THEN v ELSE [buf |-> v.buf]
    ELSE IF wire_type = SixtyFourBit THEN
        IF Underflow(8, buf) THEN DecodeError("buffer underflow")
        ELSE [buf |-> Advance(buf, 8)]
    ELSE IF wire_type = ThirtyTwoBit THEN
        IF Underflow(4, buf) THEN DecodeError("buffer underflow")
        ELSE [buf |-> Advance(buf, 4)]
    ELSE
        LET l == decode_varint(buf)
        IN IF Failed(l) THEN l
           ELSE IF Underflow(l.val, l.buf) THEN DecodeError("buffer underflow")
           ELSE [buf |-> Advance(l.buf, l.val)]

check_wire_type(expected, actual) == expected = actual

\* core::str::from_utf8: well-formed UTF-8 (no overlong forms, no
\* surrogates, nothing above U+10FFFF).
RECURSIVE from_utf8_ok(_, _)
from_utf8_ok(b, i) ==
    LET Cont(j) == j <= Len(b) /\ b[j] >= 128 /\ b[j] <= 191
    IN IF i > Len(b) THEN TRUE
       ELSE IF b[i] < 128 THEN from_utf8_ok(b, i + 1)
       ELSE IF b[i] >= 194 /\ b[i] <= 223 THEN
            Cont(i + 1) /\ from_utf8_ok(b, i + 2)
       ELSE IF b[i] >= 224 /\ b[i] <= 239 THEN
            /\ Cont(i + 1) /\ Cont(i + 2)
            /\ (b[i] = 224 => b[i + 1] >= 160)
            /\ (b[i] = 237 => b[i + 1] <= 159)
            /\ from_utf8_ok(b, i + 3)
       ELSE IF b[i] >= 240 /\ b[i] <= 244 THEN
            /\ Cont(i + 1) /\ Cont(i + 2) /\ Cont(i + 3)
            /\ (b[i] = 240 => b[i + 1] >= 144)
            /\ (b[i] = 244 => b[i + 1] <= 143)
            /\ from_utf8_ok(b, i + 4)
       ELSE FALSE

\* encoding::string::encode: key, length, bytes.
string_encode(tag, value) ==
    encode_key(tag, LengthDelimited) \o encode_varint(Len(value)) \o value

\* encoding::string::merge: the field's bytes replace the value.
string_merge(wire_type, buf) ==
    IF ~check_wire_type(LengthDelimited, wire_type) THEN DecodeError("invalid wire type")
    ELSE LET l == decode_varint(buf)
         IN IF Failed(l) THEN l
            ELSE IF Underflow(l.val, l.buf) THEN DecodeError("buffer underflow")
            ELSE IF ~from_utf8_ok(SubSeq(l.buf, 1, l.val), 1)
                 THEN DecodeError("invalid string value: data is not UTF-8 encoded")
            ELSE [val |-> SubSeq(l.buf, 1, l.val), buf |-> Advance(l.buf, l.val)]

\* encoding::int64::encode / merge.
int64_encode(tag, value) == encode_key(tag, Varint) \o encode_varint(value)

int64_merge(wire_type, buf) ==
    IF ~check_wire_type(Varint, wire_type) THEN DecodeError("invalid wire type")
    ELSE decode_varint(buf)

\* A scalar field without a label is written only when it differs from its
\* default ("" for string, 0 for int64).
string_field_encode(tag, value) ==
    IF value = << >> THEN << >> ELSE string_encode(tag, value)

int64_field_encode(tag, value) ==
    IF value = 0 THEN << >> ELSE int64_encode(tag, value)

\* Mutation: an optional string is dropped when empty, like a plain one.
optional_string_encode_skip_empty(tag, value) ==
    IF value = None \/ value[1] = << >> THEN << >> ELSE string_encode(tag, value[1])

\* An optional scalar is written whenever it is Some, whatever its value.
optional_string_encode(tag, value) ==
    IF value = None THEN << >> ELSE string_encode(tag, value[1])

\* encoding::message::encode: key, encoded_len, encode_raw.
message_encode(tag, raw) ==
    encode_key(tag, LengthDelimited) \o encode_varint(Len(raw)) \o raw

RECURSIVE Concat(_)
Concat(seqs) == IF seqs = << >> THEN << >> ELSE Head(seqs) \o Concat(Tail(seqs))

\* Mutation: the elements are written last first.
repeated_encode_reversed(tag, raws) ==
    Concat([i \in 1..Len(raws) |-> message_encode(tag, raws[Len(raws) + 1 - i])])

\* A repeated message field: one length-delimited entry per element, in order.
repeated_encode(tag, raws) ==
    Concat([i \in 1..Len(raws) |-> message_encode(tag, raws[i])])

\* ------------------------------------------------------------------------
\* Default values (#[derive(Message)] implements Default)
\* ------------------------------------------------------------------------
Coin_default == [denom |-> << >>, amount |-> << >>]
BlockInfo_default == [height |-> 0, time |-> 0, chain_id |-> << >>]
MessageInfo_default == [signer |-> << >>, sent_funds |-> << >>]
ContractInfo_default == [address |-> << >>, balance |-> << >>]
Params_default ==
    [block |-> BlockInfo_default, message |-> MessageInfo_default,
     contract |-> ContractInfo_default]
SendMsg_default == [from_address |-> << >>, to_address |-> << >>, amount |-> << >>]
ContractMsg_default == [contract_addr |-> << >>, msg |-> << >>]
OpaqueMsg_default == [data |-> << >>]
Msg_default == [msg |-> None]
Response_default == [messages |-> << >>, log |-> None, data |-> None]
ContractResult_default == [res |-> None]

Default(T) ==
    CASE T = "Coin" -> Coin_default
      [] T = "BlockInfo" -> BlockInfo_default
      [] T = "MessageInfo" -> MessageInfo_default
      [] T = "ContractInfo" -> ContractInfo_default
      [] T = "Params" -> Params_default
      [] T = "SendMsg" -> SendMsg_default
      [] T = "ContractMsg" -> ContractMsg_default
      [] T = "OpaqueMsg" -> OpaqueMsg_default
      [] T = "Msg" -> Msg_default
      [] T = "Response" -> Response_default
      [] T = "ContractResult" -> ContractResult_default
      [] T = "String" -> << >>

\* ------------------------------------------------------------------------
\* Message::encode_raw of every type, from its field attributes
\* ------------------------------------------------------------------------
Coin_encode_raw(c) ==
    string_field_encode(1, c.denom) \o string_field_encode(2, c.amount)

Coins_encode(tag, coins) ==
    repeated_encode(tag, [i \in 1..Len(coins) |-> Coin_encode_raw(coins[i])])

BlockInfo_encode_raw(b) ==
    int64_field_encode(1, b.height) \o int64_field_encode(2, b.time)
        \o string_field_encode(3, b.chain_id)

MessageInfo_encode_raw(m) ==
    string_field_encode(1, m.signer) \o Coins_encode(2, m.sent_funds)

ContractInfo_encode_raw(c) ==
    string_field_encode(1, c.address) \o Coins_encode(2, c.balance)

\* block, message and contract are required: always written.
Params_encode_raw(p) ==
    message_encode(1, BlockInfo_encode_raw(p.block))
        \o message_encode(2, MessageInfo_encode_raw(p.message))
        \o message_encode(3, ContractInfo_encode_raw(p.contract))

SendMsg_encode_raw(m) ==
    string_field_encode(1, m.from_address) \o string_field_encode(2, m.to_address)
        \o Coins_encode(3, m.amount)

ContractMsg_encode_raw(m) ==
    string_field_encode(1, m.contract_addr) \o string_field_encode(2, m.msg)

OpaqueMsg_encode_raw(m) == string_field_encode(1, m.data)

\* The variant's payload is always written, under the variant's tag.
CosmosMsg_encode(v) ==
    IF "Send" \in DOMAIN v THEN message_encode(1, SendMsg_encode_raw(v.Send))
    ELSE IF "Contract" \in DOMAIN v
         THEN message_encode(2, ContractMsg_encode_raw(v.Contract))
    ELSE message_encode(3, OpaqueMsg_encode_raw(v.Opaque))

Msg_encode_raw(m) == IF m.msg = None THEN << >> ELSE CosmosMsg_encode(m.msg[1])

Response_encode_raw(r) ==
    repeated_encode(1, [i \in 1..Len(r.messages) |-> Msg_encode_raw(r.messages[i])])
        \o optional_string_encode(2, r.log)
        \o optional_string_encode(3, r.data)

\* Err carries a String as a message field: the wrapper message whose
\* field 1 is the string.
String_encode_raw(s) == string_field_encode(1, s)

Result_encode(v) ==
    IF "Ok" \in DOMAIN v THEN message_encode(1, Response_encode_raw(v.Ok))
    ELSE message_encode(2, String_encode_raw(v.Err))

ContractResult_encode_raw(c) == IF c.res = None THEN << >> ELSE Result_encode(c.res[1])

\* ------------------------------------------------------------------------
\* Message::merge_field of every type, from its field attributes.
\* A merge returns [msg |-> the updated message, buf |-> the bytes left]
\* or a DecodeError.
\* ------------------------------------------------------------------------
RECURSIVE merge_loop(_, _, _, _)

\* encoding::message::merge: a length-delimited nested message is merged
\* field by field until the bytes left drop to the limit the length sets.
message_merge(T, wire_type, msg, buf) ==
    IF ~check_wire_type(LengthDelimited, wire_type) THEN DecodeError("invalid wire type")
    ELSE LET l == decode_varint(buf)
         IN IF Failed(l) THEN l
            ELSE IF Underflow(l.val, l.buf) THEN DecodeError("buffer underflow")
            ELSE merge_loop(T, msg, l.buf, Len(l.buf) - l.val)

\* Field setters over a primitive's or a nested message's merge result.
SetScalar(msg, f, r) ==
    IF Failed(r) THEN r ELSE [msg |-> [msg EXCEPT ![f] = r.val], buf |-> r.buf]

SetOptional(msg, f, r) ==
    IF Failed(r) THEN r ELSE [msg |-> [msg EXCEPT ![f] = Some(r.val)], buf |-> r.buf]

SetMessage(msg, f, r) ==
    IF Failed(r) THEN r ELSE [msg |-> [msg EXCEPT ![f] = r.msg], buf |-> r.buf]

\* encoding::message::merge_repeated: a fresh default element is merged and
\* pushed at the end.
PushMessage(msg, f, r) ==
    IF Failed(r) THEN r
    ELSE [msg |-> [msg EXCEPT ![f] = Append(msg[f], r.msg)], buf |-> r.buf]

\* A field whose tag the type does not declare is skipped.
Skip(msg, wire_type, buf) ==
    LET r == skip_field(wire_type, buf)
    IN IF Failed(r) THEN r ELSE [msg |-> msg, buf |-> r.buf]

Coin_merge_field(msg, tag, wire_type, buf) ==
    IF tag = 1 THEN SetScalar(msg, "denom", string_merge(wire_type, buf))
    ELSE IF tag = 2 THEN SetScalar(msg, "amount", string_merge(wire_type, buf))
    ELSE Skip(msg, wire_type, buf)

BlockInfo_merge_field(msg, tag, wire_type, buf) ==
    IF tag = 1 THEN SetScalar(msg, "height", int64_merge(wire_type, buf))
    ELSE IF tag = 2 THEN SetScalar(msg, "time", int64_merge(wire_type, buf))
    ELSE IF tag = 3 THEN SetScalar(msg, "chain_id", string_merge(wire_type, buf))
    ELSE Skip(msg, wire_type, buf)

MessageInfo_merge_field(msg, tag, wire_type, buf) ==
    IF tag = 1 THEN SetScalar(msg, "signer", string_merge(wire_type, buf))
    ELSE IF tag = 2 THEN
        PushMessage(msg, "sent_funds", message_merge("Coin", wire_type, Coin_default, buf))
    ELSE Skip(msg, wire_type, buf)

ContractInfo_merge_field(msg, tag, wire_type, buf) ==
    IF tag = 1 THEN SetScalar(msg, "address", string_merge(wire_type, buf))
    ELSE IF tag = 2 THEN
        PushMessage(msg, "balance", message_merge("Coin", wire_type, Coin_default, buf))
    ELSE Skip(msg, wire_type, buf)

\* A required message field is merged into the field's current value; its
\* absence from the buffer is not checked.
Params_merge_field(msg, tag, wire_type, buf) ==
    IF tag = 1 THEN
        SetMessage(msg, "block", message_merge("BlockInfo", wire_type, msg.block, buf))
    ELSE IF tag = 2 THEN
        SetMessage(msg, "message", message_merge("MessageInfo", wire_type, msg.message, buf))
    ELSE IF tag = 3 THEN
        SetMessage(msg, "contract", message_merge("ContractInfo", wire_type, msg.contract, buf))
    ELSE Skip(msg, wire_type, buf)

SendMsg_merge_field(msg, tag, wire_type, buf) ==
    IF tag = 1 THEN SetScalar(msg, "from_address", string_merge(wire_type, buf))
    ELSE IF tag = 2 THEN SetScalar(msg, "to_address", string_merge(wire_type, buf))
    ELSE IF tag = 3 THEN
        PushMessage(msg, "amount", message_merge("Coin", wire_type, Coin_default, buf))
    ELSE Skip(msg, wire_type, buf)

ContractMsg_merge_field(msg, tag, wire_type, buf) ==
    IF tag = 1 THEN SetScalar(msg, "contract_addr", string_merge(wire_type, buf))
    ELSE IF tag = 2 THEN SetScalar(msg, "msg", string_merge(wire_type, buf))
    ELSE Skip(msg, wire_type, buf)

OpaqueMsg_merge_field(msg, tag, wire_type, buf) ==
    IF tag = 1 THEN SetScalar(msg, "data", string_merge(wire_type, buf))
    ELSE Skip(msg, wire_type, buf)

\* Mutation: a union already set keeps its first variant.
SetVariant_keep_first(msg, f, variant, r) ==
    IF Failed(r) THEN r
    ELSE IF msg[f] # None THEN [msg |-> msg, buf |-> r.buf]
    ELSE [msg |-> [msg EXCEPT ![f] = Some([x \in {variant} |-> r.msg])], buf |-> r.buf]

\* Oneof::merge: the payload is merged into a fresh default value, which
\* then replaces whatever the union held.
SetVariant(msg, f, variant, r) ==
    IF Failed(r) THEN r
    ELSE [msg |-> [msg EXCEPT ![f] = Some([x \in {variant} |-> r.msg])], buf |-> r.buf]

CosmosMsg_merge(msg, tag, wire_type, buf) ==
    IF tag = 1 THEN
        SetVariant(msg, "msg", "Send", message_merge("SendMsg", wire_type, SendMsg_default, buf))
    ELSE IF tag = 2 THEN
        SetVariant(msg, "msg", "Contract",
                   message_merge("ContractMsg", wire_type, ContractMsg_default, buf))
    ELSE
        SetVariant(msg, "msg", "Opaque",
                   message_merge("OpaqueMsg", wire_type, OpaqueMsg_default, buf))

\* Mutation: every tag is handed to the union, whose last arm takes it.
Msg_merge_field_catchall(msg, tag, wire_type, buf) ==
    CosmosMsg_merge(msg, tag, wire_type, buf)

Msg_merge_field(msg, tag, wire_type, buf) ==
    IF tag \in {1, 2, 3} THEN CosmosMsg_merge(msg, tag, wire_type, buf)
    ELSE Skip(msg, wire_type, buf)

Response_merge_field(msg, tag, wire_type, buf) ==
    IF tag = 1 THEN
        PushMessage(msg, "messages", message_merge("Msg", wire_type, Msg_default, buf))
    ELSE IF tag = 2 THEN SetOptional(msg, "log", string_merge(wire_type, buf))
    ELSE IF tag = 3 THEN SetOptional(msg, "data", string_merge(wire_type, buf))
    ELSE Skip(msg, wire_type, buf)

String_merge_field(msg, tag, wire_type, buf) ==
    IF tag = 1 THEN
        LET r == string_merge(wire_type, buf)
        IN IF Failed(r) THEN r ELSE [msg |-> r.val, buf |-> r.buf]
    ELSE Skip(msg, wire_type, buf)

Result_merge(msg, tag, wire_type, buf) ==
    IF tag = 1 THEN
        SetVariant(msg, "res", "Ok",
                   message_merge("Response", wire_type, Response_default, buf))
    ELSE
        SetVariant(msg, "res", "Err", message_merge("String", wire_type, << >>, buf))

ContractResult_merge_field(msg, tag, wire_type, buf) ==
    IF tag \in {1, 2} THEN Result_merge(msg, tag, wire_type, buf)
    ELSE Skip(msg, wire_type, buf)

merge_field(T, msg, tag, wire_type, buf) ==
    CASE T = "Coin" -> Coin_merge_field(msg, tag, wire_type, buf)
      [] T = "BlockInfo" -> BlockInfo_merge_field(msg, tag, wire_type, buf)
      [] T = "MessageInfo" -> MessageInfo_merge_field(msg, tag, wire_type, buf)
      [] T = "ContractInfo" -> ContractInfo_merge_field(msg, tag, wire_type, buf)
      [] T = "Params" -> Params_merge_field(msg, tag, wire_type, buf)
      [] T = "SendMsg" -> SendMsg_merge_field(msg, tag, wire_type, buf)
      [] T = "ContractMsg" -> ContractMsg_merge_field(msg, tag, wire_type, buf)
      [] T = "OpaqueMsg" -> OpaqueMsg_merge_field(msg, tag, wire_type, buf)
      [] T = "Msg" -> Msg_merge_field(msg, tag, wire_type, buf)
      [] T = "Response" -> Response_merge_field(msg, tag, wire_type, buf)
      [] T = "ContractResult" -> ContractResult_merge_field(msg, tag, wire_type, buf)
      [] T = "String" -> String_merge_field(msg, tag, wire_type, buf)

\* Message::merge: one key and one field at a time while bytes remain above
\* the limit; reading past the limit is an error.
merge_loop(T, msg, buf, limit) ==
    IF Len(buf) > limit THEN
        LET k == decode_key(buf)
        IN IF Failed(k) THEN k
           ELSE LET r == merge_field(T, msg, k.tag, k.wire_type, k.buf)
                IN IF Failed(r) THEN r ELSE merge_loop(T, r.msg, r.buf, limit)
    ELSE IF Len(buf) # limit THEN DecodeError("delimited length exceeded")
    ELSE [msg |-> msg, buf |-> buf]

\* ------------------------------------------------------------------------
\* The codec entry points used by the tests: to_vec and from_slice
\* ------------------------------------------------------------------------
encode(T, v) ==
    CASE T = "Params" -> Params_encode_raw(v)
      [] T = "Msg" -> Msg_encode_raw(v)
      [] T = "ContractResult" -> ContractResult_encode_raw(v)

\* Message::decode: merge the whole buffer into the type's default value.
decode(T, buf) ==
    LET r == merge_loop(T, Default(T), buf, 0)
    IN IF Failed(r) THEN r ELSE [ok |-> r.msg]

\* ------------------------------------------------------------------------
\* impl ContractResult
\* ------------------------------------------------------------------------
Panic(text) == [panic |-> text]
Panicked(r) == "panic" \in DOMAIN r
Returned(x) == [ret |-> x]

\* Mutation: an unset union unwraps to the default Response.
unwrap_or_default(self) ==
    IF self.res = None THEN Returned(Response_default)
    ELSE IF "Err" \in DOMAIN self.res[1]
         THEN Panic(<< "Unexpected error: ", self.res[1].Err >>)
    ELSE Returned(self.res[1].Ok)

\* self.res.unwrap() panics on None; the match panics on Err with the
\* message and gives the Response on Ok.
unwrap(self) ==
    IF self.res = None THEN Panic(<< "called Option::unwrap on a None value" >>)
    ELSE IF "Err" \in DOMAIN self.res[1]
         THEN Panic(<< "Unexpected error: ", self.res[1].Err >>)
    ELSE Returned(self.res[1].Ok)

\* Mutation: an unset union is reported as not an error.
is_err_unset_false(self) ==
    IF self.res = None THEN Returned(FALSE)
    ELSE IF "Err" \in DOMAIN self.res[1] THEN Returned(TRUE)
    ELSE Returned(FALSE)

is_err(self) ==
    IF self.res = None THEN Panic(<< "called Option::unwrap on a None value" >>)
    ELSE IF "Err" \in DOMAIN self.res[1] THEN Returned(TRUE)
    ELSE Returned(FALSE)

\* ------------------------------------------------------------------------
\* Test fixtures
\* ------------------------------------------------------------------------
\* Mutation: the sent funds and the balance change places.
mock_params_swapped(signer, sent, balance) ==
    [block |-> [height |-> 12345,
                time |-> 1571797419,
                chain_id |-> << 99, 111, 115, 109, 111, 115, 45, 116, 101, 115, 116,
                                110, 101, 116, 45, 49, 52, 48, 48, 50 >>],
     message |-> [signer |-> signer, sent_funds |-> balance],
     contract |-> [address |-> << 99, 111, 115, 109, 111, 115, 50, 99, 111, 110,
                                  116, 114, 97, 99, 116 >>,
                   balance |-> sent]]

mock_params(signer, sent, balance) ==
    [block |-> [height |-> 12345,
                time |-> 1571797419,
                chain_id |-> << 99, 111, 115, 109, 111, 115, 45, 116, 101, 115, 116,
                                110, 101, 116, 45, 49, 52, 48, 48, 50 >>],
     message |-> [signer |-> signer, sent_funds |-> sent],
     contract |-> [address |-> << 99, 111, 115, 109, 111, 115, 50, 99, 111, 110,
                                  116, 114, 97, 99, 116 >>,
                   balance |-> balance]]

coin(amount, denom) == << [amount |-> amount, denom |-> denom] >>

\* ------------------------------------------------------------------------
\* Input values
\* ------------------------------------------------------------------------
Chars == {97, 98}

RECURSIVE StrsOfLen(_)
StrsOfLen(n) ==
    IF n = 0 THEN {<< >>}
    ELSE {Append(s, c) : s \in StrsOfLen(n - 1), c \in Chars}

\* ASCII strings up to MaxStrLen, one two-byte character, and the strings
\* of the repository's tests.
Foobar == << 102, 111, 111, 98, 97, 114 >>
ReleasedFunds == << 114, 101, 108, 101, 97, 115, 101, 100, 32, 102, 117, 110, 100, 115, 33 >>
Strs == UNION {StrsOfLen(n) : n \in 0..MaxStrLen} \cup {<< 195, 169 >>}
OptStrs == {None} \cup {Some(s) : s \in Strs}

RECURSIVE SeqsUpTo(_, _)
SeqsUpTo(S, n) ==
    IF n = 0 THEN {<< >>}
    ELSE SeqsUpTo(S, n - 1)
         \cup {Append(q, x) : q \in {r \in SeqsUpTo(S, n - 1) : Len(r) = n - 1}, x \in S}

Earth == coin(<< 49, 48, 49, 53 >>, << 101, 97, 114, 116, 104 >>)
CoinPool == {Coin_default, Earth[1]}
CoinSeqs == SeqsUpTo(CoinPool, MaxCoins)

Me == << 109, 101 >>
You == << 121, 111, 117 >>
Send(from, to, amount) ==
    [msg |-> Some([Send |-> [from_address |-> from, to_address |-> to, amount |-> amount]])]
Contract(addr, m) == [msg |-> Some([Contract |-> [contract_addr |-> addr, msg |-> m]])]
Opaque(d) == [msg |-> Some([Opaque |-> [data |-> d]])]

\* Messages: every variant with its payload varied, and the unset union.
Msgs ==
    {Msg_default}
        \cup {Send(Me, You, cs) : cs \in CoinSeqs}
        \cup {Send(f, << >>, << >>) : f \in Strs}
        \cup {Contract(a, Foobar) : a \in Strs}
        \cup {Contract(<< >>, << >>)}
        \cup {Opaque(d) : d \in Strs}

\* One message of each shape, for the sequences.
MsgKinds == {Msg_default, Send(Me, You, Earth), Contract(Me, Foobar), Opaque(<< >>)}

Ok(r) == [res |-> Some([Ok |-> r])]
Err(s) == [res |-> Some([Err |-> s])]

ContractResults ==
    {ContractResult_default}
        \cup {Err(s) : s \in Strs \cup {Foobar}}
        \cup {Ok([messages |-> << >>, log |-> l, data |-> d]) : l \in OptStrs, d \in OptStrs}
        \cup {Ok([messages |-> << m >>, log |-> None, data |-> None]) : m \in Msgs}
        \cup {Ok([messages |-> ms, log |-> Some(ReleasedFunds), data |-> None]) :
                ms \in SeqsUpTo(MsgKinds, MaxMsgs)}

BlockInfos ==
    {BlockInfo_default,
     [height |-> 0 - 1, time |-> 300, chain_id |-> << >>],
     [height |-> 127, time |-> 0, chain_id |-> << 97 >>]}

\* Params built field by field (mock_params supplies the others).
ParamsPool ==
    {[block |-> b, message |-> [signer |-> s, sent_funds |-> << >>],
      contract |-> [address |-> a, balance |-> Earth]] :
        b \in BlockInfos, s \in {<< >>, Me}, a \in {<< >>, You}}

Signers == {<< >>, Me}

\* The call contexts exchanged: the ones above and those of the fixture.
ParamsValues ==
    ParamsPool
        \cup {mock_params(s, sent, balance) :
                s \in Signers, sent \in CoinSeqs, balance \in {<< >>, Earth}}

\* ------------------------------------------------------------------------
\* The buffer in transit: top-level fields and the changes a sender or the
\* transport can make to them
\* ------------------------------------------------------------------------
KnownTags(T) == IF T = "ContractResult" THEN {1, 2} ELSE {1, 2, 3}
UnknownTags(T) == {3, 4, 16} \ KnownTags(T)

\* A well-formed field of each wire type, for a given tag.
FieldOf(tag, wire_type) ==
    encode_key(tag, wire_type) \o
        (CASE wire_type = Varint -> << 150, 1 >>
           [] wire_type = SixtyFourBit -> << 1, 2, 3, 4, 5, 6, 7, 8 >>
           [] wire_type = LengthDelimited -> << 2, 10, 0 >>
           [] wire_type = ThirtyTwoBit -> << 1, 2, 3, 4 >>)

UnknownFields(T) == {FieldOf(t, w) : t \in UnknownTags(T), w \in WireTypes}

\* The byte ranges of the top-level fields of a well-formed buffer.
RECURSIVE TopFields(_)
TopFields(buf) ==
    IF buf = << >> THEN << >>
    ELSE LET k == decode_key(buf)
             r == skip_field(k.wire_type, k.buf)
             n == Len(buf) - Len(r.buf)
         IN << SubSeq(buf, 1, n) >> \o TopFields(r.buf)

TagOf(field) == decode_key(field).tag

\* The offsets at which a top-level field ends (0 included).
RECURSIVE Boundaries(_)
Boundaries(fields) ==
    IF fields = << >> THEN {0}
    ELSE {0} \cup {Len(Head(fields)) + b : b \in Boundaries(Tail(fields))}

Without(fields, i) == SubSeq(fields, 1, i - 1) \o SubSeq(fields, i + 1, Len(fields))
InsertAt(fields, pos, f) ==
    SubSeq(fields, 1, pos) \o << f >> \o SubSeq(fields, pos + 1, Len(fields))
Perms(n) == {p \in [1..n -> 1..n] : \A i, j \in 1..n : p[i] = p[j] => i = j}
Retagged(field, t) ==
    encode_key(t, decode_key(field).wire_type) \o decode_key(field).buf

\* ------------------------------------------------------------------------
\* State: one host/contract exchange (construct, to_vec, bytes in transit,
\* from_slice, accessor) or one fixture call
\* ------------------------------------------------------------------------
VARIABLES
    pc,     \* "start", "inputs", "built", "encoded", "edited", "decoded", "called"
    ty,     \* the type of the value exchanged, "none" before there is one
    val,    \* Option: the value constructed
    bin,    \* the byte buffer
    edit,   \* what was done to the buffer in transit ([op |-> "none"] if nothing)
    back,   \* Option: what from_slice returned, [ok |-> value] or [err |-> text]
    args,   \* Option: the arguments borrowed by a fixture call
    ret     \* Option: the last accessor or fixture call, [op, self, out]

vars == << pc, ty, val, bin, edit, back, args, ret >>

Init ==
    /\ pc = "start"
    /\ ty = "none"
    /\ val = None
    /\ bin = << >>
    /\ edit = [op |-> "none"]
    /\ back = None
    /\ args = None
    /\ ret = None

\* A struct literal of one of the three top-level types.
NewContractResult ==
    /\ pc = "start"
    /\ pc' = "built"
    /\ ty' = "ContractResult"
    /\ \E v \in ContractResults : val' = Some(v)
    /\ UNCHANGED << bin, edit, back, args, ret >>

NewMsg ==
    /\ pc = "start"
    /\ pc' = "built"
    /\ ty' = "Msg"
    /\ \E v \in Msgs : val' = Some(v)
    /\ UNCHANGED << bin, edit, back, args, ret >>

NewParams ==
    /\ pc = "start"
    /\ pc' = "built"
    /\ ty' = "Params"
    /\ \E v \in ParamsValues : val' = Some(v)
    /\ UNCHANGED << bin, edit, back, args, ret >>

\* to_vec(&value)
ToVec ==
    /\ pc = "built"
    /\ pc' = "encoded"
    /\ bin' = encode(ty, val[1])
    /\ UNCHANGED << ty, val, edit, back, args, ret >>

Edited(newbin, e) ==
    /\ pc' = "edited"
    /\ bin' = newbin
    /\ edit' = e
    /\ UNCHANGED << ty, val, back, args, ret >>

\* The buffer is cut to a strict prefix.
Truncate ==
    /\ pc = "encoded"
    /\ \E n \in 0..(Len(bin) - 1) :
          Edited(SubSeq(bin, 1, n), [op |-> "truncate", n |-> n])

\* The bytes of one top-level field are removed.
RemoveField ==
    /\ pc = "encoded"
    /\ \E i \in 1..Len(TopFields(bin)) :
          Edited(Concat(Without(TopFields(bin), i)),
                 [op |-> "remove", tag |-> TagOf(TopFields(bin)[i])])

\* The top-level fields are sent in another order.
Reorder ==
    /\ pc = "encoded"
    /\ \E p \in Perms(Len(TopFields(bin))) :
          Edited(Concat([i \in 1..Len(TopFields(bin)) |-> TopFields(bin)[p[i]]]),
                 [op |-> "reorder", perm |-> p])

\* A newer sender adds a field this schema does not declare.
InsertUnknown ==
    /\ pc = "encoded"
    /\ \E pos \in 0..Len(TopFields(bin)), f \in UnknownFields(ty) :
          Edited(Concat(InsertAt(TopFields(bin), pos, f)),
                 [op |-> "insert", pos |-> pos, field |-> f])

\* The tag of the union's field is one this schema does not declare.
Retag ==
    /\ pc = "encoded"
    /\ ty \in {"Msg", "ContractResult"}
    /\ bin # << >>
    /\ \E t \in UnknownTags(ty) :
          Edited(Retagged(bin, t), [op |-> "retag", tag |-> t])

\* A second variant field follows the first in the same buffer.
AppendVariant ==
    /\ pc = "encoded"
    /\ ty \in {"Msg", "ContractResult"}
    /\ bin # << >>
    /\ \E v \in (IF ty = "Msg" THEN MsgKinds
                 ELSE {Err(<< >>), Err(Foobar), Ok(Response_default),
                       Ok([messages |-> << Send(Me, You, Earth) >>,
                           log |-> Some(<< >>), data |-> None])}) :
          /\ encode(ty, v) # << >>
          /\ Edited(bin \o encode(ty, v), [op |-> "append", second |-> v])

\* from_slice(&bin)
FromSlice ==
    /\ pc \in {"encoded", "edited"}
    /\ pc' = "decoded"
    /\ back' = Some(decode(ty, bin))
    /\ UNCHANGED << ty, val, bin, edit, args, ret >>

\* The ContractResult at hand: the one constructed, or the one decoded.
AtHand ==
    IF ty # "ContractResult" THEN {}
    ELSE IF pc = "built" THEN {val[1]}
    ELSE IF pc = "decoded" /\ ~Failed(back[1]) THEN {back[1].ok}
    ELSE {}

CallUnwrap ==
    /\ \E self \in AtHand :
          ret' = Some([op |-> "unwrap", self |-> self, out |-> unwrap(self)])
    /\ pc' = "called"
    /\ UNCHANGED << ty, val, bin, edit, back, args >>

CallIsErr ==
    /\ \E self \in AtHand :
          ret' = Some([op |-> "is_err", self |-> self, out |-> is_err(self)])
    /\ pc' = "called"
    /\ UNCHANGED << ty, val, bin, edit, back, args >>

Next ==
    \/ NewContractResult
    \/ NewMsg
    \/ NewParams
    \/ ToVec
    \/ Truncate
    \/ RemoveField
    \/ Reorder
    \/ InsertUnknown
    \/ Retag
    \/ AppendVariant
    \/ FromSlice
    \/ CallUnwrap
    \/ CallIsErr

Spec == Init /\ [][Next]_vars

\* ------------------------------------------------------------------------
\* The fixtures on their own: a test builds its coins with coin(), lends
\* them with a signer to mock_params, and gets a Params
\* ------------------------------------------------------------------------
CallCoin ==
    /\ pc = "start"
    /\ \E amount \in Strs, denom \in Strs :
          ret' = Some([op |-> "coin", self |-> [amount |-> amount, denom |-> denom],
                       out |-> Returned(coin(amount, denom))])
    /\ pc' = "called"
    /\ UNCHANGED << ty, val, bin, edit, back, args >>

\* The caller of mock_params holds the arguments it will lend: the coins
\* just built, or any others.
TestInputs ==
    /\ pc \in {"start", "called"}
    /\ \E signer \in Signers,
          sent \in (IF pc = "called" THEN {ret[1].out.ret} ELSE CoinSeqs),
          balance \in CoinSeqs :
          args' = Some([signer |-> signer, sent |-> sent, balance |-> balance])
    /\ pc' = "inputs"
    /\ UNCHANGED << ty, val, bin, edit, back, ret >>

CallMockParams ==
    /\ pc = "inputs"
    /\ pc' = "built"
    /\ ty' = "Params"
    /\ val' = Some(mock_params(args[1].signer, args[1].sent, args[1].balance))
    /\ UNCHANGED << bin, edit, back, args, ret >>

NextFixtures ==
    \/ CallCoin
    \/ TestInputs
    \/ CallMockParams

SpecFixtures == Init /\ [][NextFixtures]_vars

\* ------------------------------------------------------------------------
\* Properties
\* ------------------------------------------------------------------------
\* from_slice has returned, for a buffer changed in transit by `op`
\* ("none": the bytes to_vec produced).
Decoded(T, op) == pc = "decoded" /\ ty = T /\ edit.op = op

Result_ == back[1]
Sent == val[1]

\* C1: round trip.  Decoding the bytes to_vec produced for a ContractResult
\* (unset, Err(string), or Ok(Response) with any messages, log and data)
\* succeeds and gives back a value equal to the one encoded: same variant,
\* same order of messages and of the coins in a Send, same presence of log
\* and data.
C1_RoundTrip ==
    Decoded("ContractResult", "none") => Result_ = [ok |-> Sent]

C1_Witness ==
    /\ Decoded("ContractResult", "none")
    /\ Sent = Ok([messages |-> << Send(Me, You, Earth), Opaque(<< >>) >>,
                  log |-> Some(ReleasedFunds), data |-> None])
    /\ Result_ = [ok |-> Sent]

\* C2: unwrap returns the Response it holds, unchanged, exactly when the
\* union is Ok, and panics when the union is Err or unset.
C2_Unwrap ==
    (pc = "called" /\ ret[1].op = "unwrap") =>
        LET self == ret[1].self
            out == ret[1].out
        IN IF self.res # None /\ "Ok" \in DOMAIN self.res[1]
           THEN out = Returned(self.res[1].Ok)
           ELSE Panicked(out)

C2_Witness ==
    /\ pc = "called"
    /\ ret[1].op = "unwrap"
    /\ ret[1].self = ContractResult_default
    /\ Panicked(ret[1].out)

\* C3: is_err returns true exactly when the union is Err and false when it
\* is Ok, panics instead of returning when the union is unset, and leaves
\* the ContractResult it is called on as it was.
C3_IsErr ==
    [][(pc' = "called" /\ ret'[1].op = "is_err") =>
          LET self == ret'[1].self
              out == ret'[1].out
          IN /\ self \in AtHand
             /\ val' = val
             /\ back' = back
             /\ IF self.res = None THEN Panicked(out)
                ELSE out = Returned("Err" \in DOMAIN self.res[1])]_vars

C3_Witness ==
    /\ pc = "called"
    /\ ret[1].op = "is_err"
    /\ ret[1].self = ContractResult_default
    /\ Panicked(ret[1].out)

\* C4: required-field rejection.  When the bytes of block, message or
\* contract are removed from a valid Params encoding, decoding returns an
\* error and never a Params with the field at its default.
C4_RequiredFieldRejected ==
    Decoded("Params", "remove") => Failed(Result_)

Kept(T, v, k) ==
    IF T = "Params"
    THEN [block |-> IF k >= 1 THEN v.block ELSE BlockInfo_default,
          message |-> IF k >= 2 THEN v.message ELSE MessageInfo_default,
          contract |-> IF k >= 3 THEN v.contract ELSE ContractInfo_default]
    ELSE IF k >= 1 THEN v ELSE Default(T)

FieldsWithin(fields, n) ==
    Cardinality({b \in Boundaries(fields) : b > 0 /\ b <= n})

Present(r, f) == r[f] = Some(<< >>)
C7_OptionalPresence ==
    (Decoded("ContractResult", "none") /\ Sent.res # None /\ "Ok" \in DOMAIN Sent.res[1]) =>
        LET r == Sent.res[1].Ok
        IN /\ ~Failed(Result_)
           /\ Result_.ok.res # None
           /\ "Ok" \in DOMAIN Result_.ok.res[1]
           /\ \A f \in {"log", "data"} :
                /\ r[f] = None => Result_.ok.res[1].Ok[f] = None
                /\ Present(r, f) =>
                     /\ Result_.ok.res[1].Ok[f] = Some(<< >>)
                     /\ bin # encode(ty, Ok([r EXCEPT ![f] = None]))

C7_Witness ==
    /\ Decoded("ContractResult", "none")
    /\ Sent = Ok([messages |-> << >>, log |-> None, data |-> Some(<< >>)])
    /\ Result_ = [ok |-> Sent]

\* C8: decoding a valid Params encoding with its top-level fields in any
\* order, or with fields of undeclared tags inserted anywhere among them,
\* succeeds and gives the Params that decoding the original bytes gives.
C8_OrderAndUnknownTags ==
    (Decoded("Params", "reorder") \/ Decoded("Params", "insert")) =>
        /\ ~Failed(Result_)
        /\ Result_ = decode(ty, encode(ty, Sent))

C8_Witness ==
    /\ Decoded("Params", "insert")
    /\ Sent = mock_params(Me, Earth, Earth)
    /\ edit.pos = 1
    /\ edit.field = FieldOf(16, SixtyFourBit)
    /\ Result_ = [ok |-> Sent]

\* C9: when a buffer holds two variant fields of the union, decoding gives
\* exactly the value of the last one, with nothing of the first.
C9_LastVariantWins ==
    (Decoded("ContractResult", "append") \/ Decoded("Msg", "append")) =>
        Result_ = [ok |-> edit.second]

C9_Witness ==
    /\ Decoded("ContractResult", "append")
    /\ Sent = Ok([messages |-> << Send(Me, You, Earth) >>, log |-> None, data |-> None])
    /\ edit.second = Err(Foobar)
    /\ Result_ = [ok |-> Err(Foobar)]

\* C10: mock_params gives a Params with the signer, the sent funds and the
\* balance it was lent (same coins, same order), the block at height 12345,
\* time 1571797419, chain "cosmos-testnet-14002", the contract address
\* "cosmos2contract", and never changes what it was lent; coin gives a
\* sequence of one Coin with the first argument as amount and the second as
\* denom.
C10_State ==
    /\ (args # None /\ val # None) =>
          /\ Sent.message = [signer |-> args[1].signer, sent_funds |-> args[1].sent]
          /\ Sent.contract.balance = args[1].balance
          /\ Sent.contract.address = << 99, 111, 115, 109, 111, 115, 50, 99, 111, 110,
                                        116, 114, 97, 99, 116 >>
          /\ Sent.block.height = 12345
          /\ Sent.block.time = 1571797419
          /\ Sent.block.chain_id = << 99, 111, 115, 109, 111, 115, 45, 116, 101, 115,
                                      116, 110, 101, 116, 45, 49, 52, 48, 48, 50 >>
    /\ (ret # None /\ ret[1].op = "coin") =>
          /\ ~Panicked(ret[1].out)
          /\ Len(ret[1].out.ret) = 1
          /\ ret[1].out.ret[1].amount = ret[1].self.amount
          /\ ret[1].out.ret[1].denom = ret[1].self.denom

\* C10, in full: the relation above holds in every state, and once the
\* arguments are lent no step changes them.
C10_Fixtures == [](C10_State) /\ [][args # None => args' = args]_vars

C10_Witness ==
    /\ pc = "built"
    /\ ret # None /\ ret[1].op = "coin"
    /\ ret[1].self = [amount |-> << 97 >>, denom |-> << 98, 98 >>]
    /\ args = Some([signer |-> Me, sent |-> ret[1].out.ret, balance |-> Earth \o << Coin_default >>])
    /\ Sent.message.sent_funds = << [denom |-> << 98, 98 >>, amount |-> << 97 >>] >>
    /\ Sent.contract.balance = << Earth[1], Coin_default >>

====
